---- MODULE Spec2Model ----
(***************************************************************************)
(* Model of the multi-threaded crawler of src/crawler.py: the worker loop  *)
(* WebCrawler.crawl_worker, the orchestrator WebCrawler.start_crawling and *)
(* the lock-protected StatisticsCollector.                                 *)
(*                                                                         *)
(* A URL is a record of the parts urlparse/urldefrag distinguish: scheme,  *)
(* netloc (the list of its dot-separated labels), path, the extension the  *)
(* URL ends with, and fragment.  Every "with lock:" block is two steps:    *)
(* one that acquires the lock and one that runs the body and releases it.  *)
(* Queue.get either pops the head or, when the queue is empty, times out.  *)
(* Queue.task_done only counts (nothing joins the queue) and is left out,  *)
(* as are the printed messages and the sets of unique discovered URLs.     *)
(***************************************************************************)
EXTENDS Integers, Sequences, FiniteSets

\* ------------------------------------------------------------------ bounds
MaxThreads == 2
MaxPages == 3
MaxDepth == 1

\* ------------------------------------------------------- program constants
max_empty_attempts == 5

Threads == 1..MaxThreads

\* ------------------------------------------------------------ the web site
U(netloc, path, ext, fragment) ==
    [scheme |-> "https", netloc |-> netloc, path |-> path, ext |-> ext,
     fragment |-> fragment]

SiteHost == <<"www", "news", "com">>
SubHost == <<"blog", "www", "news", "com">>
OtherHost == <<"ads", "other", "com">>

Home == U(SiteHost, "index", "html", "")
PageA == U(SubHost, "a", "html", "")
PageASec == U(SubHost, "a", "html", "sec")
PageB == U(SiteHost, "b", "html", "")
Archive == U(SiteHost, "files", "ZIP", "")
Private == U(SiteHost, "private", "html", "")
Outside == U(OtherHost, "ad", "html", "")
Mail == [scheme |-> "mailto", netloc |-> <<>>, path |-> "editor", ext |-> "",
         fragment |-> ""]

\* The seeds a crawl may be constructed with.
Seeds == {Home, Archive}

\* The href targets (already joined with the base URL) of the <a>/<link> tags
\* a page serves when it answers with an HTML body.
Hrefs(u) ==
    CASE u.path = "index" -> <<PageASec, PageA, PageB, Archive, Private, Outside, Mail>>
      [] u.path = "a" -> <<PageB>>
      [] u.path = "b" -> <<Home>>
      [] OTHER -> <<>>

\* Paths a successfully parsed robots.txt disallows for the user agent.
RobotsDisallow == {"private"}

\* What requests.get can produce for one call of fetch_page: a response
\* (status, non-empty body?, Content-Type, body size) or an exception.
Responses ==
    { [kind |-> "response", status |-> 200, body |-> TRUE,
       ctype |-> "text/html; charset=utf-8", size |-> 2048],
      [kind |-> "response", status |-> 200, body |-> FALSE, ctype |-> "text/html", size |-> 0],
      [kind |-> "response", status |-> 200, body |-> TRUE, ctype |-> "image/png", size |-> 512],
      [kind |-> "response", status |-> 200, body |-> TRUE, ctype |-> "text/css", size |-> 100],
      [kind |-> "response", status |-> 404, body |-> TRUE, ctype |-> "text/html", size |-> 300],
      [kind |-> "Timeout", status |-> 0, body |-> FALSE, ctype |-> "", size |-> 0] }

\* -------------------------------------------------------------- the state
VARIABLES
    \* WebCrawler configuration (constructor arguments)
    seed_url, max_pages, max_depth, num_threads,
    \* WebCrawler shared state
    url_queue, stop_crawling, pages_fetched, fetch_lock, robot_parser,
    \* StatisticsCollector
    stats_lock, fetch_attempts, successful_visits, discovered_urls, visited_urls,
    status_codes, file_sizes, content_types,
    \* history of url_queue.put: how often each URL was enqueued
    enqueued,
    \* history of stop_crawling: what url_queue held when the flag became True
    queue_at_stop,
    \* start_crawling: the main thread
    main_pc, started, joined,
    \* crawl_worker: each thread's position and locals
    pc, url, depth, empty_queue_count, result, outlinks, link_i

config == <<seed_url, max_pages, max_depth, num_threads>>
shared == <<url_queue, stop_crawling, pages_fetched, fetch_lock, robot_parser>>
histograms == <<status_codes, file_sizes, content_types>>
stats == <<stats_lock, fetch_attempts, successful_visits, discovered_urls, visited_urls,
           histograms>>
main == <<main_pc, started, joined>>
locals == <<url, depth, empty_queue_count, result, outlinks, link_i>>
vars == <<config, shared, stats, enqueued, queue_at_stop, main, pc, locals>>

NoUrl == [scheme |-> "", netloc |-> <<>>, path |-> "", ext |-> "", fragment |-> ""]
NoResult == [status |-> 0, content |-> FALSE, content_type |-> "", size |-> 0]

\* ------------------------------------------------------- pure functions
\* urldefrag(url)[0]: the URL without its fragment.
urldefrag(u) == [u EXCEPT !.fragment = ""]

\* str.lower() on the strings of the model's universe.
Lower(s) == CASE s = "ZIP" -> "zip" [] s = "Text/HTML" -> "text/html" [] OTHER -> s

\* WebCrawler.__init__: self.domain = urlparse(seed_url).netloc
domain == seed_url.netloc

\* netloc.endswith('.' + domain), on lists of labels
EndsWithDotDomain(netloc, dom) ==
    /\ Len(netloc) > Len(dom)
    /\ SubSeq(netloc, Len(netloc) - Len(dom) + 1, Len(netloc)) = dom

is_within_site(u) == u.netloc = domain \/ EndsWithDotDomain(u.netloc, domain)

\* the alternatives of the excluded_extensions pattern, matched with IGNORECASE
ExcludedExtensions ==
    {"css", "js", "json", "xml", "bmp", "mp3", "mp4", "wav", "avi", "mov", "mpeg",
     "ram", "m4v", "wmv", "rm", "smil", "swf", "wma", "zip", "rar", "gz", "tar",
     "7z", "exe", "bin", "dmg", "iso"}

excluded_extensions_match(u) == Lower(u.ext) \in ExcludedExtensions

allowed_content_types ==
    {"text/html", "application/pdf", "application/msword",
     "application/vnd.openxmlformats-officedocument.wordprocessingml.document",
     "image/gif", "image/jpeg", "image/jpg", "image/png", "image/webp",
     "image/svg+xml"}

\* any(allowed in content_type.lower() ...): the content types of the model
\* are bare MIME types, for which containment is equality.
should_process_content_type(content_type) ==
    Lower(content_type) \in allowed_content_types

\* 'text/html' in content_type (case-sensitive)
is_html(content_type) == content_type = "text/html"

\* RobotFileParser after __init__ ran robot_parser.read(): the outcome of the
\* request for /robots.txt decides the parser's flags.  "parsed": the file was
\* read and parsed (last_checked set); "http403"/"http404": read() handles the
\* HTTPError and sets disallow_all/allow_all; "raised": read() raises (URLError,
\* decoding error), the constructor catches it, and no flag is ever set.
RobotsOutcomes == {"parsed", "http403", "http404", "raised"}

RobotsAfterRead(outcome) ==
    [last_checked |-> outcome = "parsed",
     disallow_all |-> outcome = "http403",
     allow_all |-> outcome = "http404",
     disallow |-> IF outcome = "parsed" THEN RobotsDisallow ELSE {}]

\* robot_parser.can_fetch(user_agent, url) as urllib.robotparser computes it:
\* disallow_all, allow_all, then "not last_checked => False", then the rules.
can_fetch(u) ==
    IF robot_parser.disallow_all THEN FALSE
    ELSE IF robot_parser.allow_all THEN TRUE
    ELSE IF ~robot_parser.last_checked THEN FALSE
    ELSE u.path \notin robot_parser.disallow

is_visited(u) == u \in visited_urls

\* is_valid_url without the extension and robots checks
is_valid_url_visited_only(u) == ~is_visited(urldefrag(u))

\* WebCrawler.is_valid_url, evaluated while is_visited holds the stats lock
is_valid_url(u) ==
    LET d == urldefrag(u) IN
    /\ ~is_visited(d)
    /\ ~excluded_extensions_match(d)
    /\ can_fetch(d)

\* content_type.split(';')[0].strip() on the strings of the model's universe
split_strip(content_type) ==
    CASE content_type = "text/html; charset=utf-8" -> "text/html"
      [] OTHER -> content_type

\* WebCrawler.fetch_page: the tuple returned for what requests.get did
fetch_page(r) ==
    CASE r.kind = "response" ->
           [status |-> r.status, content |-> r.body,
            content_type |-> split_strip(r.ctype), size |-> r.size]
      [] r.kind = "Timeout" ->
           [status |-> 408, content |-> FALSE, content_type |-> "", size |-> 0]
      [] r.kind = "ConnectionError" ->
           [status |-> 503, content |-> FALSE, content_type |-> "", size |-> 0]
      [] OTHER ->
           [status |-> 500, content |-> FALSE, content_type |-> "", size |-> 0]

\* WebCrawler.extract_links: defragment each href, keep those starting with http
RECURSIVE extract_links(_)
extract_links(hrefs) ==
    IF hrefs = <<>> THEN <<>>
    ELSE LET absolute_url == urldefrag(Head(hrefs))
             rest == extract_links(Tail(hrefs))
         IN IF absolute_url.scheme \in {"http", "https"}
            THEN <<absolute_url>> \o rest
            ELSE rest

\* the URLs that can ever be put on the queue
Urls == {Home, PageA, PageB, Archive, Private, Outside}

\* ------------------------------------------------- StatisticsCollector
\* collections.Counter: counter[key] += 1 (a missing key counts as 0)
CounterAdd(counter, key) ==
    IF key \in DOMAIN counter
    THEN [counter EXCEPT ![key] = @ + 1]
    ELSE [k \in DOMAIN counter \cup {key} |-> IF k = key THEN 1 ELSE counter[k]]

\* the keys of self.file_sizes, in the order of the if/elif chain
SizeRanges == <<"< 1KB", "1KB ~ <10KB", "10KB ~ <100KB", "100KB ~ <1MB", ">= 1MB">>

\* size_kb = size / 1024; size_kb < k.  Dividing by 1024 is exact in binary
\* floating point, so the test is size < k * 1024.
size_kb_below(size, k) == size < k * 1024

\* a chain whose tests are <= instead of <
size_range_inclusive(size) ==
    IF size <= 1024 THEN "< 1KB"
    ELSE IF size <= 10240 THEN "1KB ~ <10KB"
    ELSE IF size <= 102400 THEN "10KB ~ <100KB"
    ELSE IF size <= 1048576 THEN "100KB ~ <1MB"
    ELSE ">= 1MB"

\* add_successful_visit: the key of the bucket the if/elif chain increments
size_range(size) ==
    IF size_kb_below(size, 1) THEN "< 1KB"
    ELSE IF size_kb_below(size, 10) THEN "1KB ~ <10KB"
    ELSE IF size_kb_below(size, 100) THEN "10KB ~ <100KB"
    ELSE IF size_kb_below(size, 1024) THEN "100KB ~ <1MB"
    ELSE ">= 1MB"

\* add_fetch_attempt that appends without counting the status code
status_codes_uncounted(counter, status_code) == counter
\* add_fetch_attempt: self.status_codes[status_code] += 1
status_codes_counted(counter, status_code) == CounterAdd(counter, status_code)

\* a collector that keeps no record of a fetch that failed
add_fetch_attempt_success_only(u, status_code) ==
    IF 200 <= status_code /\ status_code < 300
    THEN /\ fetch_attempts' = Append(fetch_attempts, [url |-> u, status |-> status_code])
         /\ status_codes' = status_codes_counted(status_codes, status_code)
    ELSE UNCHANGED <<fetch_attempts, status_codes>>

\* StatisticsCollector.add_fetch_attempt: the body of "with self.lock"
add_fetch_attempt(u, status_code) ==
    /\ fetch_attempts' = Append(fetch_attempts, [url |-> u, status |-> status_code])
    /\ status_codes' = status_codes_counted(status_codes, status_code)

\* StatisticsCollector.add_successful_visit: the body of "with self.lock"
add_successful_visit(u, size, n_outlinks, content_type) ==
    LET clean_content_type == split_strip(content_type) IN
    /\ successful_visits' = Append(successful_visits,
           [url |-> u, size |-> size, outlinks |-> n_outlinks,
            content_type |-> clean_content_type])
    /\ content_types' = CounterAdd(content_types, clean_content_type)
    /\ visited_urls' = visited_urls \cup {u}
    /\ file_sizes' = [file_sizes EXCEPT ![size_range(size)] = @ + 1]

\* ------------------------------------------------- decisions of the worker
\* "continue": the worker goes back to the loop test
break_pc == "finished"
continue_pc == "while"
\* the loop-top check of the page budget
\* a loop-top check that gives up one page early
budget_exhausted_early == pages_fetched + 1 >= max_pages
\* "if self.pages_fetched >= self.max_pages" at the top of the loop
budget_exhausted == pages_fetched >= max_pages
\* the increment without a re-check of the budget
budget_exhausted_recheck_unchecked == FALSE
\* a re-check that gives up one page early
budget_exhausted_recheck_early == pages_fetched + 1 >= max_pages
\* a re-check that lets one page too many through
budget_exhausted_recheck_late == pages_fetched > max_pages
\* the re-check of the budget in the block that increments pages_fetched
budget_exhausted_recheck == pages_fetched >= max_pages
\* a depth check that lets one level too many through
depth_exceeded_off_by_one(d) == d > max_depth + 1
\* if depth > self.max_depth
depth_exceeded(d) == d > max_depth
\* if 200 <= status_code < 300 and content
\* a test that leaves out "and content"
is_success_any_body(r) == 200 <= r.status /\ r.status < 300
\* "if 200 <= status_code < 300 and content"
is_success(r) == 200 <= r.status /\ r.status < 300 /\ r.content
\* a gate that lets links of any site on to the queue
enqueue_gate_any_site(is_within) == TRUE
\* "if is_within and not self.stats.is_visited(link)": the left operand, which
\* decides whether is_visited is called at all, and the right operand
enqueue_gate(is_within) == is_within
\* a right operand that never looks at visited_urls
enqueue_allowed_unseen(link) == TRUE
\* "... and not self.stats.is_visited(link)"
enqueue_allowed(link) == ~is_visited(link)
\* a discovery record that ignores the scope flag
discovery_record_always_ok(link, is_within) == [url |-> link, indicator |-> "OK"]
\* add_discovered_url: the record appended to discovered_urls
discovery_record(link, is_within) ==
    [url |-> link, indicator |-> IF is_within THEN "OK" ELSE "N_OK"]
\* an exit that does not ask whether anything was fetched
idle_exit_unconditional(count) == count >= max_empty_attempts
\* if empty_queue_count >= max_empty_attempts and self.pages_fetched > 0
idle_exit(count) == count >= max_empty_attempts /\ pages_fetched > 0

\* ------------------------------------------------------------------- Init
Init ==
    /\ seed_url \in Seeds
    /\ max_pages \in 0..MaxPages
    /\ max_depth \in 0..MaxDepth
    /\ num_threads \in 1..MaxThreads
    /\ url_queue = <<[url |-> seed_url, depth |-> 0]>>
    /\ enqueued = [u \in Urls |-> IF u = seed_url THEN 1 ELSE 0]
    /\ stop_crawling = FALSE
    /\ queue_at_stop = "unset"
    /\ pages_fetched = 0
    /\ fetch_lock = 0
    /\ \E outcome \in RobotsOutcomes : robot_parser = RobotsAfterRead(outcome)
    /\ stats_lock = 0
    /\ fetch_attempts = <<>>
    /\ successful_visits = <<>>
    /\ discovered_urls = <<>>
    /\ visited_urls = {}
    /\ status_codes = <<>>
    /\ file_sizes = [k \in {SizeRanges[i] : i \in DOMAIN SizeRanges} |-> 0]
    /\ content_types = <<>>
    /\ main_pc = "start"
    /\ started = 0
    /\ joined = 0
    /\ pc = [t \in Threads |-> "new"]
    /\ url = [t \in Threads |-> NoUrl]
    /\ depth = [t \in Threads |-> 0]
    /\ empty_queue_count = [t \in Threads |-> 0]
    /\ result = [t \in Threads |-> NoResult]
    /\ outlinks = [t \in Threads |-> <<>>]
    /\ link_i = [t \in Threads |-> 0]

\* ------------------------------------------------ start_crawling (main)
\* thread = threading.Thread(target=self.crawl_worker, ...); thread.start()
StartThread ==
    /\ main_pc = "start"
    /\ started < num_threads
    /\ started' = started + 1
    /\ pc' = [pc EXCEPT ![started + 1] = "while"]
    /\ main_pc' = IF started + 1 = num_threads THEN "join" ELSE "start"
    /\ UNCHANGED <<config, shared, stats, enqueued, queue_at_stop, joined, locals>>

\* for thread in threads: thread.join()
JoinThread ==
    /\ main_pc = "join"
    /\ joined < num_threads
    /\ pc[joined + 1] = "finished"
    /\ joined' = joined + 1
    /\ main_pc' = IF joined + 1 = num_threads THEN "done" ELSE "join"
    /\ UNCHANGED <<config, shared, stats, enqueued, queue_at_stop, started, pc, locals>>

\* ------------------------------------------------------------ crawl_worker
\* "continue" / end of the loop body: the locals of the iteration are dead
Forget(t) ==
    /\ url' = [url EXCEPT ![t] = NoUrl]
    /\ depth' = [depth EXCEPT ![t] = 0]
    /\ result' = [result EXCEPT ![t] = NoResult]
    /\ outlinks' = [outlinks EXCEPT ![t] = <<>>]
    /\ link_i' = [link_i EXCEPT ![t] = 0]

\* while not self.stop_crawling:
WhileTest(t) ==
    /\ pc[t] = "while"
    /\ pc' = [pc EXCEPT ![t] = IF stop_crawling THEN "finished" ELSE "budget_lock"]
    /\ UNCHANGED <<config, shared, stats, enqueued, queue_at_stop, main, locals>>

\* a block that leaves without releasing
fetch_lock_kept(t) == t
\* leaving a "with self.fetch_lock:" block (also by break) releases the lock
fetch_lock_on_exit(t) == 0

\* with self.fetch_lock: (entering either of the two blocks)
AcquireFetchLock(t) ==
    /\ pc[t] \in {"budget_lock", "count_lock"}
    /\ fetch_lock = 0
    /\ fetch_lock' = t
    /\ pc' = [pc EXCEPT ![t] = IF pc[t] = "budget_lock" THEN "budget" ELSE "count"]
    /\ UNCHANGED <<config, url_queue, stop_crawling, pages_fetched, robot_parser,
                   stats, enqueued, queue_at_stop, main, locals>>

\* self.stop_crawling = True (the history notes the queue the first time)
set_stop_crawling ==
    /\ stop_crawling' = TRUE
    /\ queue_at_stop' = IF stop_crawling THEN queue_at_stop
                        ELSE IF url_queue = <<>> THEN "empty" ELSE "nonempty"

\* if self.pages_fetched >= self.max_pages: self.stop_crawling = True; break
BudgetCheck(t) ==
    /\ pc[t] = "budget"
    /\ fetch_lock' = fetch_lock_on_exit(t)
    /\ IF budget_exhausted
       THEN /\ set_stop_crawling
            /\ pc' = [pc EXCEPT ![t] = "finished"]
       ELSE /\ UNCHANGED <<stop_crawling, queue_at_stop>>
            /\ pc' = [pc EXCEPT ![t] = "get"]
    /\ UNCHANGED <<config, url_queue, pages_fetched, robot_parser, stats, enqueued,
                   main, locals>>

\* url, depth = self.url_queue.get(timeout=2), then the depth and scope checks
\* (each rejects with task_done(); continue)
QueueGet(t) ==
    /\ pc[t] = "get"
    /\ url_queue # <<>>
    /\ LET entry == Head(url_queue) IN
       /\ url_queue' = Tail(url_queue)
       /\ empty_queue_count' = [empty_queue_count EXCEPT ![t] = 0]
       /\ IF depth_exceeded(entry.depth) \/ ~is_within_site(entry.url)
          THEN /\ pc' = [pc EXCEPT ![t] = continue_pc]
               /\ UNCHANGED <<url, depth>>
          ELSE /\ pc' = [pc EXCEPT ![t] = "valid_lock"]
               /\ url' = [url EXCEPT ![t] = entry.url]
               /\ depth' = [depth EXCEPT ![t] = entry.depth]
    /\ UNCHANGED <<config, stop_crawling, pages_fetched, fetch_lock, robot_parser,
                   stats, enqueued, queue_at_stop, main, result, outlinks, link_i>>

\* except Empty: the queue stayed empty for the timeout.  The counter only
\* matters through "count >= max_empty_attempts", so it saturates there.
QueueEmpty(t) ==
    /\ pc[t] = "get"
    /\ url_queue = <<>>
    /\ LET count == IF empty_queue_count[t] < max_empty_attempts
                    THEN empty_queue_count[t] + 1
                    ELSE max_empty_attempts IN
       /\ empty_queue_count' = [empty_queue_count EXCEPT ![t] = count]
       /\ pc' = [pc EXCEPT ![t] = IF idle_exit(count) THEN "finished" ELSE "while"]
    /\ UNCHANGED <<config, shared, stats, enqueued, queue_at_stop, main, url, depth, result,
                   outlinks, link_i>>

\* with self.lock: (entering a StatisticsCollector method)
StatsLockPcs == {"valid_lock", "record_lock", "disc_lock", "isv_lock", "visit_lock"}
InsideStats(p) ==
    CASE p = "valid_lock" -> "valid"
      [] p = "record_lock" -> "record"
      [] p = "disc_lock" -> "disc"
      [] p = "isv_lock" -> "isv"
      [] p = "visit_lock" -> "visit"

AcquireStatsLock(t) ==
    /\ pc[t] \in StatsLockPcs
    /\ stats_lock = 0
    /\ stats_lock' = t
    /\ pc' = [pc EXCEPT ![t] = InsideStats(pc[t])]
    /\ UNCHANGED <<config, shared, fetch_attempts, successful_visits,
                   discovered_urls, visited_urls, histograms, enqueued, queue_at_stop, main, locals>>

\* if not self.is_valid_url(url): task_done(); continue
IsValidUrl(t) ==
    /\ pc[t] = "valid"
    /\ stats_lock' = 0
    /\ IF is_valid_url(url[t])
       THEN /\ pc' = [pc EXCEPT ![t] = "count_lock"]
            /\ UNCHANGED locals
       ELSE /\ pc' = [pc EXCEPT ![t] = continue_pc]
            /\ Forget(t)
            /\ UNCHANGED empty_queue_count
    /\ UNCHANGED <<config, shared, fetch_attempts, successful_visits,
                   discovered_urls, visited_urls, histograms, enqueued, queue_at_stop, main>>

\* the second fetch_lock block: re-check the budget, else pages_fetched += 1
CountFetch(t) ==
    /\ pc[t] = "count"
    /\ fetch_lock' = fetch_lock_on_exit(t)
    /\ IF budget_exhausted_recheck
       THEN /\ set_stop_crawling
            /\ pages_fetched' = pages_fetched
            /\ pc' = [pc EXCEPT ![t] = "finished"]
            /\ Forget(t)
       ELSE /\ UNCHANGED <<stop_crawling, queue_at_stop>>
            /\ pages_fetched' = pages_fetched + 1
            /\ pc' = [pc EXCEPT ![t] = "sleep"]
            /\ UNCHANGED <<url, depth, result, outlinks, link_i>>
    /\ UNCHANGED <<config, url_queue, robot_parser, stats, enqueued, main,
                   empty_queue_count>>

\* where the for loop over outlinks goes with index i
LinkPc(links, i) == IF i > Len(links) THEN "visit_lock" ELSE "disc_lock"

\* time.sleep(self.politeness_delay): the delay is over and fetch_page is called
PolitenessDelay(t) ==
    /\ pc[t] = "sleep"
    /\ pc' = [pc EXCEPT ![t] = "fetch"]
    /\ UNCHANGED <<config, shared, stats, enqueued, queue_at_stop, main, locals>>

\* status_code, ... = self.fetch_page(url): the call returns with whatever
\* requests.get did; nothing shared is touched.
FetchPage(t) ==
    /\ pc[t] = "fetch"
    /\ \E r \in Responses : result' = [result EXCEPT ![t] = fetch_page(r)]
    /\ pc' = [pc EXCEPT ![t] = "record_lock"]
    /\ UNCHANGED <<config, shared, stats, enqueued, queue_at_stop, main, url, depth,
                   empty_queue_count, outlinks, link_i>>

\* self.stats.add_fetch_attempt(url, status_code), then the tests on the
\* response and, for an HTML page, extract_links
AddFetchAttempt(t) ==
    /\ pc[t] = "record"
    /\ stats_lock' = 0
    /\ add_fetch_attempt(url[t], result[t].status)
    /\ IF is_success(result[t]) /\ should_process_content_type(result[t].content_type)
       THEN LET links == IF is_html(result[t].content_type)
                         THEN extract_links(Hrefs(url[t])) ELSE <<>> IN
            /\ outlinks' = [outlinks EXCEPT ![t] = links]
            /\ link_i' = [link_i EXCEPT ![t] = 1]
            /\ pc' = [pc EXCEPT ![t] = LinkPc(links, 1)]
            /\ UNCHANGED <<url, depth, result>>
       ELSE /\ pc' = [pc EXCEPT ![t] = "while"]
            /\ Forget(t)
    /\ UNCHANGED <<config, shared, successful_visits, discovered_urls, visited_urls,
                   file_sizes, content_types, enqueued, queue_at_stop, main, empty_queue_count>>

\* is_within = self.is_within_site(link); self.stats.add_discovered_url(link, is_within)
AddDiscoveredUrl(t) ==
    /\ pc[t] = "disc"
    /\ stats_lock' = 0
    /\ LET link == outlinks[t][link_i[t]]
           is_within == is_within_site(link) IN
       /\ discovered_urls' = Append(discovered_urls, discovery_record(link, is_within))
       /\ IF enqueue_gate(is_within)
          THEN /\ pc' = [pc EXCEPT ![t] = "isv_lock"]
               /\ UNCHANGED link_i
          ELSE /\ pc' = [pc EXCEPT ![t] = LinkPc(outlinks[t], link_i[t] + 1)]
               /\ link_i' = [link_i EXCEPT ![t] = link_i[t] + 1]
    /\ UNCHANGED <<config, shared, fetch_attempts, successful_visits, visited_urls,
                   histograms, enqueued, queue_at_stop, main, url, depth, empty_queue_count, result,
                   outlinks>>

\* ... and not self.stats.is_visited(link)
IsVisitedLink(t) ==
    /\ pc[t] = "isv"
    /\ stats_lock' = 0
    /\ IF enqueue_allowed(outlinks[t][link_i[t]])
       THEN /\ pc' = [pc EXCEPT ![t] = "put"]
            /\ UNCHANGED link_i
       ELSE /\ pc' = [pc EXCEPT ![t] = LinkPc(outlinks[t], link_i[t] + 1)]
            /\ link_i' = [link_i EXCEPT ![t] = link_i[t] + 1]
    /\ UNCHANGED <<config, shared, fetch_attempts, successful_visits, discovered_urls,
                   visited_urls, histograms, enqueued, queue_at_stop, main, url, depth,
                   empty_queue_count, result, outlinks>>

\* self.url_queue.put((link, depth + 1))
QueuePut(t) ==
    /\ pc[t] = "put"
    /\ LET link == outlinks[t][link_i[t]] IN
       /\ url_queue' = Append(url_queue, [url |-> link, depth |-> depth[t] + 1])
       /\ enqueued' = [enqueued EXCEPT ![link] = @ + 1]
    /\ pc' = [pc EXCEPT ![t] = LinkPc(outlinks[t], link_i[t] + 1)]
    /\ link_i' = [link_i EXCEPT ![t] = link_i[t] + 1]
    /\ UNCHANGED <<config, stop_crawling, pages_fetched, fetch_lock, robot_parser,
                   stats, queue_at_stop, main, url, depth, empty_queue_count, result,
                   outlinks>>

\* self.stats.add_successful_visit(url, size, len(outlinks), content_type);
\* task_done(); back to the loop test
AddSuccessfulVisit(t) ==
    /\ pc[t] = "visit"
    /\ stats_lock' = 0
    /\ add_successful_visit(url[t], result[t].size, Len(outlinks[t]),
                            result[t].content_type)
    /\ pc' = [pc EXCEPT ![t] = "while"]
    /\ Forget(t)
    /\ UNCHANGED <<config, shared, fetch_attempts, discovered_urls, status_codes,
                   enqueued, queue_at_stop, main, empty_queue_count>>

crawl_worker(t) ==
    \/ WhileTest(t)
    \/ AcquireFetchLock(t)
    \/ BudgetCheck(t)
    \/ QueueGet(t)
    \/ QueueEmpty(t)
    \/ AcquireStatsLock(t)
    \/ IsValidUrl(t)
    \/ CountFetch(t)
    \/ PolitenessDelay(t)
    \/ FetchPage(t)
    \/ AddFetchAttempt(t)
    \/ AddDiscoveredUrl(t)
    \/ IsVisitedLink(t)
    \/ QueuePut(t)
    \/ AddSuccessfulVisit(t)

Next ==
    \/ StartThread
    \/ JoinThread
    \/ \E t \in Threads : crawl_worker(t)

Spec == Init /\ [][Next]_vars

\* The scheduler runs every thread that can take a step.
FairSpec ==
    /\ Spec
    /\ WF_vars(StartThread \/ JoinThread)
    /\ \A t \in Threads : WF_vars(crawl_worker(t))

\* ------------------------------------------- the collector on its own
\* A StatisticsCollector right after construction, and a caller that records
\* visits of pages of any size: the sizes around each bucket boundary.
MaxCalls == 2
SizeSamples ==
    {0, 1, 1023, 1024, 1025, 10239, 10240, 10241, 102399, 102400, 102401,
     1048575, 1048576, 1048577}

StatsInit ==
    /\ Init
    /\ max_pages = 0 /\ max_depth = 0 /\ num_threads = 1
    /\ seed_url = Home
    /\ robot_parser = RobotsAfterRead("parsed")

\* stats.add_successful_visit(url, size, outlinks, content_type), lock included
RecordVisit ==
    /\ Len(successful_visits) < MaxCalls
    /\ stats_lock = 0
    /\ stats_lock' = 0
    /\ \E size \in SizeSamples, ct \in {"text/html; charset=utf-8", "image/png"} :
           add_successful_visit(Home, size, 0, ct)
    /\ UNCHANGED <<config, shared, fetch_attempts, discovered_urls, status_codes,
                   enqueued, queue_at_stop, main, pc, locals>>

StatsSpec == StatsInit /\ [][RecordVisit]_vars

\* ================================================================ claims
Attempts == DOMAIN fetch_attempts
Failed(a) == ~(200 <= a.status /\ a.status < 300)
AllFinished == main_pc = "done"

\* the positions of a worker between the increment of pages_fetched and the
\* end of the iteration that fetched
Dispatched ==
    {"sleep", "fetch", "record_lock", "record", "disc_lock", "disc", "isv_lock", "isv",
     "put", "visit_lock", "visit"}

\* C1: no fragment-stripped URL appears twice in fetch_attempts.
NoDoubleFetch ==
    \A i, j \in Attempts :
        i # j => urldefrag(fetch_attempts[i].url) # urldefrag(fetch_attempts[j].url)

\* C2: the recorded fetch attempts and the counter pages_fetched never exceed
\* max_pages.
BudgetRespected ==
    /\ pages_fetched <= max_pages
    /\ Len(fetch_attempts) <= max_pages

\* C2 witness: two workers, the budget spent to the last page and a worker
\* turned away by a budget check.
BudgetSpent ==
    /\ num_threads = 2
    /\ max_pages = 3
    /\ Len(fetch_attempts) = max_pages
    /\ stop_crawling
    /\ url_queue # <<>>

\* C3: a worker only ever fetches an entry of depth <= max_depth; entries
\* start at depth 0 and are queued one deeper than the page they were found on.
DepthRespected ==
    /\ \A t \in Threads : pc[t] \in Dispatched => depth[t] \in 0..max_depth
    /\ \A k \in DOMAIN url_queue : url_queue[k].depth \in 0..(max_depth + 1)

\* C3 witness: with max_depth = 0 the links of the seed were queued at depth 1,
\* popped and dropped, although budget and policy would have let them through.
DepthCutoff ==
    /\ AllFinished
    /\ max_depth = 0
    /\ max_pages >= 2
    /\ robot_parser.allow_all
    /\ enqueued[PageA] >= 1
    /\ url_queue = <<>>
    /\ Len(fetch_attempts) = 1

\* C4: over a whole crawl no URL is put on the queue more than once.
EnqueuedAtMostOnce == \A u \in Urls : enqueued[u] <= 1

\* C5: every URL enqueued, fetched or recorded as visited is within the site.
ScopeSafety ==
    /\ \A u \in Urls : enqueued[u] > 0 => is_within_site(u)
    /\ \A k \in DOMAIN url_queue : is_within_site(url_queue[k].url)
    /\ \A i \in Attempts : is_within_site(fetch_attempts[i].url)
    /\ \A i \in DOMAIN successful_visits : is_within_site(successful_visits[i].url)

\* C5 witness: a page linking to another site was processed to the end, and a
\* page of a subdomain was fetched.
OutsideLinkSkipped ==
    /\ AllFinished
    /\ \E i \in DOMAIN discovered_urls : discovered_urls[i].url = Outside
    /\ \E i \in Attempts : fetch_attempts[i].url = PageA

RECURSIVE SumOutlinks(_)
SumOutlinks(visits) ==
    IF visits = <<>> THEN 0 ELSE Head(visits).outlinks + SumOutlinks(Tail(visits))

\* the links of its current page a worker has already recorded as discovered
RecordedLinks(t) ==
    CASE pc[t] \in {"disc_lock", "disc"} -> link_i[t] - 1
      [] pc[t] \in {"isv_lock", "isv", "put"} -> link_i[t]
      [] pc[t] \in {"visit_lock", "visit"} -> Len(outlinks[t])
      [] OTHER -> 0

RECURSIVE SumRecordedLinks(_)
SumRecordedLinks(T) ==
    IF T = {} THEN 0
    ELSE LET t == CHOOSE x \in T : TRUE IN RecordedLinks(t) + SumRecordedLinks(T \ {t})

\* C6: every extracted link gets one discovery record, marked OK exactly when
\* it is within the site: the records number the outlinks of the pages visited
\* plus the links already handled of the pages still being processed.
DiscoveryRecording ==
    /\ \A i \in DOMAIN discovered_urls :
          discovered_urls[i].indicator =
              IF is_within_site(discovered_urls[i].url) THEN "OK" ELSE "N_OK"
    /\ Len(discovered_urls) = SumOutlinks(successful_visits) + SumRecordedLinks(Threads)

\* C6 witness: the crawl is over, the seed page's five links are all recorded,
\* among them one outside the site that was never queued.
AllLinksDiscovered ==
    /\ AllFinished
    /\ \E i \in DOMAIN successful_visits :
          successful_visits[i].url = Home /\ successful_visits[i].outlinks = 6
    /\ \E i \in DOMAIN discovered_urls :
          discovered_urls[i] = [url |-> Outside, indicator |-> "N_OK"]
    /\ \E i \in DOMAIN discovered_urls :
          discovered_urls[i] = [url |-> Archive, indicator |-> "OK"]
    /\ Len(discovered_urls) = SumOutlinks(successful_visits)

\* C7: no fetch attempt is ever recorded for a URL with an excluded extension
\* or one the robots policy disallows.
PolicyRejectedNeverFetched ==
    \A i \in Attempts :
        LET d == urldefrag(fetch_attempts[i].url) IN
        ~excluded_extensions_match(d) /\ can_fetch(d)

\* C7 witness: the .ZIP link and the disallowed link were discovered and queued
\* within the depth limit, every queue entry was popped while the budget
\* lasted, and neither was fetched.
RejectedLinksDropped ==
    /\ AllFinished
    /\ robot_parser.last_checked
    /\ max_depth = 1
    /\ enqueued[Archive] >= 1 /\ enqueued[Private] >= 1
    /\ \E i \in DOMAIN discovered_urls : discovered_urls[i].url = Archive
    /\ \E i \in DOMAIN discovered_urls : discovered_urls[i].url = Private
    /\ url_queue = <<>>
    /\ queue_at_stop = "empty"

\* robot_parser.read() raised in the constructor: none of its flags is set
RobotsReadFailed ==
    /\ ~robot_parser.last_checked
    /\ ~robot_parser.disallow_all
    /\ ~robot_parser.allow_all

\* C8: when reading robots.txt failed, the filter rejects no URL on robots
\* grounds.
RobotsFailOpen == RobotsReadFailed => \A u \in Urls : can_fetch(u)

\* C9: every crawl ends: all workers leave their loop and the joins return.
CrawlTerminates == <>AllFinished

\* C10: once a fetch of a URL has failed, that URL is not fetched again.
FailuresAreFinal ==
    \A i, j \in Attempts :
        (i < j /\ Failed(fetch_attempts[i])) =>
            urldefrag(fetch_attempts[i].url) # urldefrag(fetch_attempts[j].url)

\* the sum of the counts of a Counter
RECURSIVE CounterTotal(_)
CounterTotal(counter) ==
    IF DOMAIN counter = {} THEN 0
    ELSE LET k == CHOOSE x \in DOMAIN counter : TRUE IN
         counter[k] + CounterTotal([j \in DOMAIN counter \ {k} |-> counter[j]])

\* C11: whenever no worker is inside a StatisticsCollector method, the
\* status-code counts sum to the number of fetch attempts, and the size-bucket
\* counts and the content-type counts each sum to the number of visit records.
HistogramConsistency ==
    stats_lock = 0 =>
        /\ CounterTotal(status_codes) = Len(fetch_attempts)
        /\ CounterTotal(file_sizes) = Len(successful_visits)
        /\ CounterTotal(content_types) = Len(successful_visits)

\* two status codes and two content types have been counted, and a worker is at
\* rest between two StatisticsCollector calls
HistogramsFilled ==
    /\ stats_lock = 0
    /\ Len(fetch_attempts) = 3
    /\ Cardinality(DOMAIN status_codes) >= 2
    /\ Cardinality(DOMAIN content_types) = 2
    /\ Len(successful_visits) = 2

\* the bucket the half-open byte ranges assign to a size
RangeOfBytes(size) ==
    CASE 0 <= size /\ size < 1024 -> "< 1KB"
      [] 1024 <= size /\ size < 10240 -> "1KB ~ <10KB"
      [] 10240 <= size /\ size < 102400 -> "10KB ~ <100KB"
      [] 102400 <= size /\ size < 1048576 -> "100KB ~ <1MB"
      [] 1048576 <= size -> ">= 1MB"

\* C12: every recorded visit incremented exactly one bucket, the one whose
\* half-open byte range holds its size: each bucket counts the visit records
\* whose size lies in its range (1024 in "1KB ~ <10KB", 1048576 in ">= 1MB").
SizeBucketing ==
    \A k \in DOMAIN file_sizes :
        file_sizes[k] = Cardinality({i \in DOMAIN successful_visits :
                                        RangeOfBytes(successful_visits[i].size) = k})

\* visits of exactly 1024 and of exactly 1048576 bytes have been recorded
BoundarySizesRecorded ==
    /\ \E i \in DOMAIN successful_visits : successful_visits[i].size = 1024
    /\ \E i \in DOMAIN successful_visits : successful_visits[i].size = 1048576
    /\ file_sizes["1KB ~ <10KB"] = 1
    /\ file_sizes[">= 1MB"] = 1

\* a fetch result the claim calls accepted: 2xx, non-empty body, allowed type
Accepted(r) ==
    /\ r.status \in 200..299
    /\ r.content
    /\ r.content_type \in allowed_content_types

\* the positions of a worker that has recorded an attempt and still owes the
\* visit record of the page
VisitPending ==
    {"disc_lock", "disc", "isv_lock", "isv", "put", "visit_lock", "visit"}

OkAttempts == {i \in Attempts : ~Failed(fetch_attempts[i])}

\* C13: a visit record is appended exactly once for each fetch attempt that
\* returned 2xx with a non-empty body and an allowed content type, and for no
\* other fetch: recording an attempt makes the worker owe a visit exactly when
\* the result is accepted, a worker that owes one pays it with one record for
\* its URL, and nothing else appends a record.  So every visit record's URL
\* has a 2xx attempt and there are never more visit records than 2xx attempts.
VisitPerAcceptedPage ==
    /\ [](/\ \A i \in DOMAIN successful_visits : \E j \in OkAttempts :
                 fetch_attempts[j].url = successful_visits[i].url
          /\ Len(successful_visits) <= Cardinality(OkAttempts)
          /\ \A i \in DOMAIN successful_visits :
                 successful_visits[i].content_type \in allowed_content_types
          /\ \A t \in Threads : pc[t] \in VisitPending => Accepted(result[t])
          /\ AllFinished => \A t \in Threads : pc[t] \notin VisitPending)
    /\ [][\A t \in Threads :
             (pc[t] = "record" /\ pc'[t] # "record") =>
                 /\ Len(fetch_attempts') = Len(fetch_attempts) + 1
                 /\ Accepted(result[t]) <=> pc'[t] \in VisitPending]_vars
    /\ [][\A t \in Threads :
             (pc[t] \in VisitPending /\ pc'[t] \notin VisitPending) =>
                 /\ pc[t] = "visit"
                 /\ successful_visits' = Append(successful_visits,
                        successful_visits'[Len(successful_visits')])
                 /\ successful_visits'[Len(successful_visits')].url = url[t]]_vars
    /\ [][successful_visits' # successful_visits =>
             \E t \in Threads : pc[t] = "visit" /\ pc'[t] # "visit"]_vars

\* three fetches returned 200 and only one of the pages was accepted
OneOfThreeAccepted ==
    /\ AllFinished
    /\ Len(fetch_attempts) = 3
    /\ Cardinality(OkAttempts) = 3
    /\ Len(successful_visits) = 1

\* the links extract_links returns for the seed page
SeedLinks == extract_links(Hrefs(seed_url))

\* a link the scope test and the policy filter let through
Admissible(link) ==
    /\ is_within_site(link)
    /\ ~excluded_extensions_match(link)
    /\ can_fetch(link)

FanOut == Cardinality({SeedLinks[i] : i \in DOMAIN SeedLinks} \cap {l \in Urls : Admissible(l)})

\* the seed page was fetched and visited with all its links, these hold more
\* distinct admissible links than max_pages within the depth limit, and no
\* fetch failed
BudgetCutoffScenario ==
    /\ max_depth >= 1
    /\ FanOut > max_pages
    /\ \E i \in DOMAIN successful_visits :
          /\ successful_visits[i].url = seed_url
          /\ successful_visits[i].outlinks = Len(SeedLinks)
    /\ \A i \in Attempts : ~Failed(fetch_attempts[i])

\* C14 as stated: in the scenario the crawl ends with exactly max_pages fetch
\* attempts, with stop_crawling true, and the queue was non-empty at the moment
\* the flag was set.
BudgetCutoff ==
    (AllFinished /\ BudgetCutoffScenario) =>
        /\ Len(fetch_attempts) = max_pages
        /\ stop_crawling
        /\ queue_at_stop = "nonempty"

\* C14, amended: in the scenario the crawl ends with exactly max_pages fetch
\* attempts and with stop_crawling true; the queue was non-empty at the moment
\* the flag was set when there is a single worker.
BudgetCutoffCount ==
    (AllFinished /\ BudgetCutoffScenario) =>
        /\ Len(fetch_attempts) = max_pages
        /\ stop_crawling
        /\ queue_at_stop # "unset"
        /\ num_threads = 1 => queue_at_stop = "nonempty"

\* the scenario with a budget of two pages, run by two workers and by one
BudgetCutoffReached ==
    /\ AllFinished
    /\ BudgetCutoffScenario
    /\ max_pages = 2
    /\ FanOut = 3
    /\ url_queue # <<>>

\* worker t leaves its loop at the "except Empty" branch in this step
IdleExitStep(t) == pc[t] = "get" /\ pc'[t] = "finished"

\* worker t's poll of the queue in this step, successful or timed out
PopStep(t) == pc[t] = "get" /\ pc'[t] # "get" /\ url_queue' # url_queue
EmptyPollStep(t) == pc[t] = "get" /\ pc'[t] # "get" /\ url_queue' = url_queue

\* the local counter counts consecutive empty polls: a pop resets it, an empty
\* poll adds one (up to the threshold), nothing else touches it
CountsConsecutiveEmptyPolls ==
    \A t \in Threads :
        /\ PopStep(t) => empty_queue_count'[t] = 0
        /\ EmptyPollStep(t) =>
               /\ url_queue = <<>>
               /\ empty_queue_count'[t] =
                      IF empty_queue_count[t] < max_empty_attempts
                      THEN empty_queue_count[t] + 1 ELSE max_empty_attempts
        /\ (pc[t] # "get" \/ pc'[t] = "get") =>
               empty_queue_count'[t] = empty_queue_count[t]

\* C15 as stated: a worker leaves its loop on an empty frontier only after 5
\* consecutive empty polls and only after a fetch attempt with a 2xx status
\* has been recorded.
IdleExitAfterSuccess ==
    /\ [][CountsConsecutiveEmptyPolls]_vars
    /\ [][\A t \in Threads :
             IdleExitStep(t) =>
                 /\ empty_queue_count'[t] = max_empty_attempts
                 /\ OkAttempts # {}]_vars

\* C15, amended: a worker leaves its loop on an empty frontier only after 5
\* consecutive empty polls and only after a fetch has been counted
\* (pages_fetched > 0), whether or not that fetch has returned or succeeded.
IdleExitAfterDispatch ==
    /\ [][CountsConsecutiveEmptyPolls]_vars
    /\ [][\A t \in Threads :
             IdleExitStep(t) =>
                 /\ empty_queue_count'[t] = max_empty_attempts
                 /\ url_queue = <<>>
                 /\ pages_fetched > 0]_vars
    /\ [](\A t \in Threads :
             (pc[t] = "finished" /\ ~stop_crawling) =>
                 empty_queue_count[t] = max_empty_attempts /\ pages_fetched > 0)

\* every worker idled out of a crawl whose only fetch failed
IdledOutAfterFailure ==
    /\ AllFinished
    /\ num_threads = 2
    /\ ~stop_crawling
    /\ Len(fetch_attempts) = 1
    /\ OkAttempts = {}
    /\ \A t \in Threads : empty_queue_count[t] = max_empty_attempts

\* worker t calls fetch_page in this step (its politeness sleep is over)
FetchPageCall(t) == pc[t] = "sleep" /\ pc'[t] = "fetch"

\* worker t passes the block that counts a page for dispatch in this step
DispatchStep(t) == pc[t] = "count" /\ pc'[t] = "sleep"

\* C16 as stated: once stop_crawling is true no worker starts a new call to
\* fetch_page.
NoFetchCallAfterStop ==
    [][stop_crawling => \A t \in Threads : ~FetchPageCall(t)]_vars

\* C16, amended: the flag is polled at the top of the loop and the budget is
\* re-checked before a page is counted, so once stop_crawling is true no
\* worker counts another page or goes on from the loop test; a worker that
\* had counted its page before still sleeps and then calls fetch_page.
NoDispatchAfterStop ==
    /\ [][stop_crawling =>
             /\ pages_fetched' = pages_fetched
             /\ \A t \in Threads : ~DispatchStep(t)]_vars
    /\ [][\A t \in Threads :
             (stop_crawling /\ pc[t] = "while") => pc'[t] \in {"while", "finished"}]_vars

\* the flag is up while a worker that passed the loop test stands at the
\* budget re-check
StoppedAtRecheck ==
    /\ stop_crawling
    /\ \E t \in Threads : pc[t] = "count" /\ url[t] # NoUrl

\* where a worker is inside a "with self.fetch_lock:" block, inside a
\* StatisticsCollector method, and where it is suspended
InFetchLock == {"budget", "count"}
InStatsLock == {InsideStats(p) : p \in StatsLockPcs}
Suspended == {"get", "sleep", "fetch"}

\* C17: a worker holds fetch_lock only inside one of the two budget blocks and
\* the statistics lock only inside a StatisticsCollector method, so never at
\* the queue pop, the sleep or the fetch, never both, and never one while it
\* asks for the other; and whenever a worker waits for a lock, the holder can
\* take its next step, so no state is a deadlock on locks and is_visited is
\* never blocked for good by add_successful_visit.
LockDiscipline ==
    /\ fetch_lock \in {0} \cup Threads
    /\ stats_lock \in {0} \cup Threads
    /\ \A t \in Threads :
          /\ fetch_lock = t <=> pc[t] \in InFetchLock
          /\ stats_lock = t <=> pc[t] \in InStatsLock
          /\ ~(fetch_lock = t /\ stats_lock = t)
          /\ pc[t] \in Suspended => fetch_lock # t /\ stats_lock # t
          /\ pc[t] \in StatsLockPcs \cup {"budget_lock", "count_lock"} =>
                 fetch_lock # t /\ stats_lock # t
          /\ pc[t] \in StatsLockPcs =>
                 \/ ENABLED AcquireStatsLock(t)
                 \/ stats_lock \in Threads /\ ENABLED crawl_worker(stats_lock)
          /\ pc[t] \in {"budget_lock", "count_lock"} =>
                 \/ ENABLED AcquireFetchLock(t)
                 \/ fetch_lock \in Threads /\ ENABLED crawl_worker(fetch_lock)

\* is_visited is called for a link while another worker is inside
\* add_successful_visit
IsVisitedWaitsForVisit ==
    \E t, u \in Threads :
        /\ pc[t] = "visit" /\ stats_lock = t
        /\ pc[u] = "isv_lock"

\* the link worker t is handling in the loop over outlinks
CurrentLink(t) == outlinks[t][link_i[t]]

\* worker t puts its current link on the queue in this step
PutStep(t) == pc[t] = "put" /\ pc'[t] # "put"

\* C18 as stated: a discovered link is put on the queue only when, at that
\* moment, it is within scope and passes the policy filter (not visited, not
\* an excluded extension, allowed by robots).
FilterGateBeforeFrontier ==
    [][\A t \in Threads :
          PutStep(t) => is_within_site(CurrentLink(t)) /\ is_valid_url(CurrentLink(t))]_vars

\* C18, amended: a discovered link is put on the queue only when it is within
\* scope and the is_visited call made for it just before returned false; the
\* extension and robots tests are not applied to it until it is popped.
ScopeAndVisitedGate ==
    /\ [](\A t \in Threads :
             pc[t] \in {"isv_lock", "isv", "put"} => is_within_site(CurrentLink(t)))
    /\ [][\A t \in Threads :
             (pc[t] # "put" /\ pc'[t] = "put") =>
                 /\ pc[t] = "isv"
                 /\ ~is_visited(CurrentLink(t))
                 /\ CurrentLink(t)' = CurrentLink(t)]_vars
    /\ [][\A t \in Threads :
             PutStep(t) =>
                 url_queue' = Append(url_queue,
                                     [url |-> CurrentLink(t), depth |-> depth[t] + 1])]_vars
    /\ [][Len(url_queue') > Len(url_queue) => \E t \in Threads : PutStep(t)]_vars

\* the queue holds a link with an excluded extension and a link that
\* robots.txt disallows
RejectedLinksQueued ==
    /\ \E k \in DOMAIN url_queue : excluded_extensions_match(url_queue[k].url)
    /\ \E k \in DOMAIN url_queue : ~can_fetch(url_queue[k].url)
    /\ robot_parser.last_checked

\* every worker thread has left crawl_worker
AllWorkersExited == \A t \in 1..num_threads : pc[t] = "finished"

\* C19: whenever all workers have exited and pages_fetched < max_pages, the
\* queue is empty: entries are only left behind when the budget ran out.
NoWorkAbandoned ==
    (AllWorkersExited /\ pages_fetched < max_pages) => url_queue = <<>>

\* two workers have exited with budget to spare after the links that were
\* queued have all been popped
DrainedWithBudgetLeft ==
    /\ AllWorkersExited
    /\ num_threads = 2
    /\ pages_fetched >= 1
    /\ pages_fetched < max_pages
    /\ enqueued[PageA] >= 1 /\ enqueued[PageB] >= 1 /\ enqueued[Archive] >= 1
    /\ url_queue = <<>>
    /\ ~stop_crawling

\* C20: stop_crawling starts false, is only ever set from false to true and is
\* never cleared; whenever it is true, pages_fetched >= max_pages; so a crawl
\* whose workers have all exited with budget left (the queue ran dry) ends
\* with the flag still false.
StopFlagSound ==
    /\ [](stop_crawling \in BOOLEAN)
    /\ [](stop_crawling => pages_fetched >= max_pages)
    /\ [][stop_crawling => stop_crawling']_vars
    /\ []((AllWorkersExited /\ pages_fetched < max_pages) =>
             ~stop_crawling /\ queue_at_stop = "unset")
    /\ [](main_pc = "start" /\ started = 0 => ~stop_crawling)

\* the flag went up when the last page of a budget of at least two had been
\* counted, while that page is still being fetched
StopSetDuringLastFetch ==
    /\ stop_crawling
    /\ max_pages >= 2
    /\ pages_fetched = max_pages
    /\ \E t \in Threads : pc[t] \in Dispatched
    /\ Len(fetch_attempts) < max_pages

\* the positions of a worker that has incremented pages_fetched and has not
\* yet recorded the attempt
CountedNotRecorded == {"sleep", "fetch", "record_lock", "record"}

InFlight == {t \in Threads : pc[t] \in CountedNotRecorded}

\* C21: the recorded fetch attempts never outnumber pages_fetched, and the
\* difference is exactly the number of workers that have incremented the
\* counter and not yet recorded their attempt; pages_fetched never decreases
\* (it grows by one, with a worker passing the counting block); once all
\* workers have exited the two numbers are equal.
CounterBookkeeping ==
    /\ [](Len(fetch_attempts) <= pages_fetched)
    /\ [](pages_fetched - Len(fetch_attempts) = Cardinality(InFlight))
    /\ [][pages_fetched' >= pages_fetched]_vars
    /\ [][pages_fetched' # pages_fetched =>
             /\ pages_fetched' = pages_fetched + 1
             /\ \E t \in Threads : DispatchStep(t)]_vars
    /\ [](AllWorkersExited => Len(fetch_attempts) = pages_fetched)

\* two workers have each counted a page that is not recorded yet: the counter
\* is two ahead of the records
TwoFetchesInFlight ==
    /\ Cardinality(InFlight) = 2
    /\ pages_fetched = 3
    /\ Len(fetch_attempts) = 1
    /\ ~Failed(fetch_attempts[1])

====
